---- MODULE Spec2Model ----
(***************************************************************************)
(* State-machine model of pdfio-file.c: the file handle (pdfio_file_t),    *)
(* its object index (pdf->objs), the cross-reference loader (load_xref),   *)
(* the object-stream expander (load_obj_stream), trailer assembly, and the *)
(* writer-side pdfioFileCreate / pdfioFileCreateObject / pdfioFileClose.   *)
(*                                                                         *)
(* The bytes of the input file are revealed to the loader as it reads      *)
(* them: every read of the file is an input drawn with \E from a bounded   *)
(* set.  Collaborators that are not part of pdfio-file.c (the token        *)
(* reader, the value reader, the decode pipeline, the C allocator) appear  *)
(* only through the outcomes pdfio-file.c branches on.                     *)
(***************************************************************************)
EXTENDS Integers, Sequences, FiniteSets, TLC

(* ------------------------------------------------------------------ *)
(* Bounds of the model                                                 *)
(* ------------------------------------------------------------------ *)

\* Object numbers named by xref entries, headers and /Index run 1..MaxNum.
MaxNum == 2
\* At most MaxSections xref sections are loaded along the /Prev chain.
MaxSections == 2
\* At most MaxReads items are read from the file: each xref section, each
\* xref entry and each object number at the head of an object stream is one.
MaxReads == 4
\* At most MaxHdr object numbers in the header of one object stream.
MaxHdr == 2
\* At most MaxCreate calls of pdfioFileCreateObject on a written file.
MaxCreate == 3
\* At most MaxKids entries in the /Kids array of the page tree root.
MaxKids == 1

(* ------------------------------------------------------------------ *)
(* Program constants                                                   *)
(* ------------------------------------------------------------------ *)

\* pdf->objs grows by 32 slots at a time.
AllocStep == 32
\* sizeof(objs) / sizeof(objs[0]) in load_obj_stream.
ObjStmMax == 1000
\* sizeof(sobjs) / sizeof(sobjs[0]) in load_xref.
SobjsMax == 1000
\* sizeof(buffer) in load_xref: the widest xref-stream record.
BufferSize == 32

NULL == 0

\* Byte offsets at which an xref section can start.
XOffs == 1..MaxSections
\* Object numbers xref entries, object-stream headers and /Index can name.
Nums == 1..MaxNum
\* The object numbers an xref stream can have itself: one that an xref entry
\* can name too, or one above all of those.
SelfNums == {1, MaxNum + 1}
\* Every object number the file mentions.
AllNums == Nums \cup SelfNums
\* The generation an in-use entry of the section at xoff gives: distinct
\* sections give distinct generations.
EntryGen(xoff) == xoff - 1

\* The byte offset an in-use entry of the section at xoff gives for object n:
\* distinct sections give distinct offsets for the same number.
EntryOffset(xoff, n) == 10 * xoff + n

(* ------------------------------------------------------------------ *)
(* The object index: pdf->objs[0 .. num_objs-1]                        *)
(* ------------------------------------------------------------------ *)

\* compare_objs(): -1, 0 or 1 by object number.
compare_objs(a, b) ==
  IF a.number < b.number THEN -1
  ELSE IF a.number = b.number THEN 0
  ELSE 1

\* The sorted orders of the records in the set S: a record of the least
\* number first, then a sorted order of the rest.
RECURSIVE SortedOrders(_)
SortedOrders(S) ==
  IF S = {} THEN {<<>>}
  ELSE LET least == {x \in S : \A y \in S : x.number <= y.number}
       IN  UNION {{<<x>> \o t : t \in SortedOrders(S \ {x})} : x \in least}

\* qsort(objs, num_objs, ..., compare_objs): some sorted order of the same
\* records; the order among records of equal number is unspecified.
qsort(o) == SortedOrders({o[k] : k \in 1..Len(o)})

\* bsearch(&key, objs, num_objs, ..., compare_objs): index of a matching
\* record in o[l+1 .. u] (1-based), or 0.
RECURSIVE bsearch(_, _, _, _)
bsearch(o, key, l, u) ==
  IF l >= u THEN 0
  ELSE LET idx == (l + u) \div 2
           c   == compare_objs(key, o[idx + 1])
       IN  IF c < 0 THEN bsearch(o, key, l, idx)
           ELSE IF c > 0 THEN bsearch(o, key, idx + 1, u)
           ELSE idx + 1

\* pdfioFileFindObject(): index of the record found for number, or NULL.
pdfioFileFindObject(o, number) ==
  IF Len(o) > 0 THEN bsearch(o, [number |-> number], 0, Len(o)) ELSE NULL

\* Does a scan of o from the front meet a record numbered n?
LinearScan(o, n) == \E k \in 1..Len(o) : o[k].number = n

\* add_obj() without its re-sort.
NeverSort(o, number) == FALSE

\* The re-sort test at the end of add_obj().
NeedSort(o, number) ==
  Len(o) > 1 /\ o[Len(o) - 1].number > number

\* The index after add_obj() stored the new record obj at the tail.
Inserted(o, obj) ==
  LET t == Append(o, obj)
  IN  IF NeedSort(t, obj.number) THEN qsort(t) ELSE {t}

(* ------------------------------------------------------------------ *)
(* State                                                               *)
(* ------------------------------------------------------------------ *)

VARIABLES
  pc,           \* where the program is: see the actions
  pdf,          \* the pdfio_file_t: "none", "live" or "freed"
  mode,         \* pdf->mode: "none", "read" or "write"
  fd,           \* pdf->fd: "none", "open" or "closed"
  opens,        \* successful open() calls so far
  closes,       \* close() calls so far
  objs,         \* pdf->objs[0 .. num_objs-1], a sequence of records
  alloc_objs,   \* pdf->alloc_objs
  heap,         \* ids of the pdfio_obj_t records allocated and not freed
  nalloc,       \* pdfio_obj_t records allocated so far (the next id - 1)
  pdf_trailer,  \* pdf->trailer: NULL or the offset of the section it is from
  root,         \* pdf->root: NULL or the id of a record
  asked,        \* the dictionary /Root, /Info, /Encrypt and /ID were read from
  trailer_sets, \* assignments to pdf->trailer so far
  num_pages,    \* pdf->num_pages
  errs,         \* the messages passed to the error callback by this file
  xref_offset,  \* load_xref: xref_offset
  number,       \* load_xref: number
  num_objects,  \* load_xref: num_objects
  trailer,      \* load_xref: trailer (the current section's dictionary)
  w,            \* load_xref: w[0..2]
  line,         \* load_xref: the xref entry last read into line[]
  named,        \* the parents named by the compressed records of the section
                \* being read that were not skipped
  sub,          \* the subsection being read: its first number, the entries
                \* read from it, and the number the last of them was taken for
  streams,      \* decode streams opened by pdfioObjOpenStream and not closed
  sobjs,        \* load_xref: sobjs[0 .. num_sobjs-1]
  i,            \* load_xref: i, the index into sobjs
  os,           \* load_obj_stream: its locals while it runs, else NoCall
  chain,        \* offsets of the xref sections loaded so far, in load order
  reads,        \* items read from the file so far
  seen,         \* per object number, what was read about it, in order: its xref
                \* entries ("f", "n", "c") and its header as an xref stream ("x")
  hdrs,         \* per object number, the header of its object stream if read
  prevs,        \* per section offset, the /Prev of its classical trailer if read
  cause,        \* where the open failed (the message reported there, or a
                \* name) and the input that made it fail
  keys,         \* which of pdf->info, pdf->encrypt and pdf->id_array are set
  focus         \* the part of the input space the run draws the file from

vars == <<pc, pdf, mode, fd, opens, closes, objs, alloc_objs, heap, nalloc,
          pdf_trailer, root, asked, trailer_sets, cause, keys, focus, num_pages, errs, xref_offset,
          number,
          num_objects, trailer, w, line, sub, named, streams, sobjs, i, os, chain, reads, seen, hdrs,
          prevs, cause, keys, focus>>

handleVars == <<pdf, mode, fd, opens, closes, objs, alloc_objs, heap, nalloc,
                pdf_trailer, root, asked, trailer_sets, cause, keys, focus, num_pages>>
loaderVars == <<xref_offset, number, num_objects, trailer, w, sobjs, i, os, line, sub,
                named>>
fileVars   == <<chain, reads, seen, hdrs, prevs>>

NoTrailer == [off |-> 0, prev |-> 0]
\* The locals of load_obj_stream when it is not running.  While it runs:
\* obj is the number of the object stream, toks the tokens of its payload,
\* hdr the object numbers the header loop reads, at the place of the token
\* pushed back after it, objs the pointers add_obj() returned, got the
\* values read so far, each by the number of the object it is the value of,
\* again whether the stream was read before in this open, ret the loop the
\* call returns to.
NoCall    ==
  [obj |-> 0, toks |-> <<>>, hdr |-> <<>>, at |-> 0, objs |-> <<>>,
   cur_obj |-> 0, got |-> <<>>, again |-> FALSE, ret |-> "none"]
NoW       == <<0, 0, 0>>
NoLine    == <<>>
NoSub     == [first |-> 0, k |-> 0, last |-> 0, idx |-> {}]
\* A token of the payload of an object stream: an object number ("num")
\* or an offset ("off") of its header, or a value ("val", one token here).
\* digit: does it begin with a digit; n: the number it reads as; owner: for
\* a value, the number of the object it is the value of.
Tok(kind, digit, n, owner) ==
  [kind |-> kind, digit |-> digit, n |-> n, owner |-> owner]
\* The payload of an object stream that was not read.
Unread    == <<Tok("unread", FALSE, 0, 0)>>

NoCause   == [site |-> "none", input |-> <<>>]
\* The /Prev of a section whose trailer was not read.
Unknown   == -1

\* The state after construction, for a run that draws its file from the
\* part f of the input space.
Start(f) ==
  /\ focus = f
  /\ cause = NoCause
  /\ keys = {}
  /\ prevs = [x \in XOffs |-> Unknown]
  /\ pc = "idle"
  /\ pdf = "none" /\ mode = "none" /\ fd = "none"
  /\ opens = 0 /\ closes = 0
  /\ objs = <<>> /\ alloc_objs = 0 /\ heap = {} /\ nalloc = 0
  /\ pdf_trailer = NULL /\ root = NULL /\ asked = NULL /\ num_pages = 0
  /\ trailer_sets = 0
  /\ errs = <<>>
  /\ xref_offset = 0 /\ number = 0 /\ num_objects = 0
  /\ trailer = NoTrailer /\ w = NoW /\ line = NoLine /\ sub = NoSub /\ named = {}
  /\ streams = {} /\ sobjs = <<>> /\ i = 0 /\ os = NoCall
  /\ chain = <<>>
  /\ reads = 0
  /\ seen = [n \in AllNums |-> <<>>]
  /\ hdrs = [n \in Nums |-> Unread]

\* Files of up to MaxSections sections whose /Prev never leads back.
Init == Start("chain")

Ids(o) == {o[k].id : k \in 1..Len(o)}

(* ------------------------------------------------------------------ *)
(* add_obj                                                             *)
(* ------------------------------------------------------------------ *)

\* The allocator state as it stands: what a caller holds when add_obj()
\* was not called.
Cur ==
  [obj |-> NULL, objs |-> objs, alloc_objs |-> alloc_objs, heap |-> heap,
   nalloc |-> nalloc, msgs |-> <<>>]

\* The record add_obj() fills in.
NewObj(id, n, generation, offset) ==
  [id |-> id, number |-> n, generation |-> generation, offset |-> offset,
   value |-> "none"]

\* realloc() failed and the record just allocated is not freed.
KeepRecord(hp, id) == hp

\* The heap after realloc() failed in add_obj(): free(obj).
AfterReallocFailure(hp, id) == hp \ {id}

\* add_obj(pdf, n, generation, offset): every outcome, as the values of
\* pdf->objs, pdf->alloc_objs, the heap and the messages reported; obj is
\* the id of the record returned, or NULL.
add_obj(n, generation, offset) ==
  LET id == nalloc + 1
      callocFails ==
        {[obj |-> NULL, objs |-> objs, alloc_objs |-> alloc_objs, heap |-> heap,
          nalloc |-> nalloc,
          msgs |-> <<"Unable to allocate memory for object">>]}
      reallocFails ==
        IF Len(objs) >= alloc_objs
          THEN {[obj |-> NULL, objs |-> objs, alloc_objs |-> alloc_objs,
                 heap |-> AfterReallocFailure(heap \cup {id}, id),
                 nalloc |-> id,
                 msgs |-> <<"Unable to allocate memory for object">>]}
          ELSE {}
      stored ==
        {[obj |-> id, objs |-> t,
          alloc_objs |-> IF Len(objs) >= alloc_objs
                           THEN alloc_objs + AllocStep ELSE alloc_objs,
          heap |-> heap \cup {id}, nalloc |-> id, msgs |-> <<>>] :
            t \in Inserted(objs, NewObj(id, n, generation, offset))}
  IN  callocFails \cup reallocFails \cup stored

\* The caller goes on with the outcome r of add_obj().
Store(r) ==
  /\ objs' = r.objs
  /\ alloc_objs' = r.alloc_objs
  /\ heap' = r.heap
  /\ nalloc' = r.nalloc
  /\ errs' = errs \o r.msgs

\* o with the value of the record whose id is id set to v.
WithValue(o, id, v) ==
  [k \in 1..Len(o) |-> IF o[k].id = id THEN [o[k] EXCEPT !.value = v] ELSE o[k]]

(* ------------------------------------------------------------------ *)
(* pdfioFileClose                                                      *)
(* ------------------------------------------------------------------ *)

\* What pdfioFileClose(pdf) does to the handle reached with allocator state
\* r: close(pdf->fd) once, free every record of pdf->objs, the arrays, the
\* pages and the pdfio_file_t itself.
Closing(r) ==
  /\ closes' = closes + 1
  /\ fd' = "closed"
  /\ heap' = r.heap \ Ids(r.objs)
  /\ nalloc' = r.nalloc
  /\ objs' = <<>>
  /\ alloc_objs' = 0
  /\ pdf_trailer' = NULL
  /\ root' = NULL
  /\ num_pages' = 0
  /\ pdf' = "freed"
  /\ keys' = {}
  /\ UNCHANGED <<mode, opens, asked, trailer_sets, focus>>

\* What has been read of the file is kept while a handle exists.
Forgotten ==
  /\ chain' = <<>>
  /\ reads' = 0
  /\ seen' = [n \in AllNums |-> <<>>]
  /\ hdrs' = [n \in Nums |-> Unread]
  /\ prevs' = [x \in XOffs |-> Unknown]

\* The locals of load_xref and load_obj_stream once the loader has returned.
LoaderGone ==
  /\ xref_offset' = 0 /\ number' = 0 /\ num_objects' = 0
  /\ trailer' = NoTrailer /\ w' = NoW /\ sobjs' = <<>> /\ i' = 0
  /\ line' = NoLine /\ sub' = NoSub /\ named' = {}
  /\ os' = NoCall

\* pdfioFileClose() called by the application on an open handle.
pdfioFileClose ==
  /\ pc \in {"opened", "created"}
  /\ pc' = "closed"
  /\ Closing(Cur)
  /\ Forgotten
  /\ UNCHANGED <<errs, streams, cause>>
  /\ UNCHANGED loaderVars

\* The error exit of pdfioFileOpen ("goto error"), taken from the header
\* checks or when load_xref returned false with allocator state r after the
\* code of this file has reported msgs: pdfioFileClose(pdf), return NULL.
FailAt(site, input, r, msgs) ==
  /\ pc' = "failed"
  /\ cause' = [site |-> site, input |-> input]
  /\ errs' = errs \o r.msgs \o msgs
  /\ Closing(r)
  /\ LoaderGone
  /\ Forgotten

\* The same, the failure named by the message reported last.
Fail(r, msgs) ==
  FailAt(IF msgs = <<>> THEN "silent" ELSE msgs[Len(msgs)], <<>>, r, msgs)

(* ------------------------------------------------------------------ *)
(* pdfioFileCreate, pdfioFileCreateObject                              *)
(* ------------------------------------------------------------------ *)

pdfioFileCreate ==
  /\ pc = "idle"
  /\ \/ \* !filename
        /\ pc' = "failed"
        /\ UNCHANGED <<errs, pdf, mode, fd, opens, closes>>
     \/ \* calloc of the pdfio_file_t fails
        /\ pc' = "failed"
        /\ errs' = Append(errs, "Unable to allocate memory for PDF file")
        /\ UNCHANGED <<pdf, mode, fd, opens, closes>>
     \/ \* open() fails
        /\ pc' = "failed"
        /\ errs' = Append(errs, "Unable to create file")
        /\ pdf' = "freed" /\ mode' = "write"
        /\ UNCHANGED <<fd, opens, closes>>
     \/ \* the header cannot be written: pdfioFileClose(pdf), return NULL
        /\ pc' = "failed"
        /\ pdf' = "freed" /\ mode' = "write"
        /\ fd' = "closed" /\ opens' = opens + 1 /\ closes' = closes + 1
        /\ UNCHANGED errs
     \/ /\ pc' = "created"
        /\ pdf' = "live" /\ mode' = "write"
        /\ fd' = "open" /\ opens' = opens + 1
        /\ UNCHANGED <<errs, closes>>
  /\ UNCHANGED <<objs, alloc_objs, heap, nalloc, pdf_trailer, root, asked, trailer_sets, cause, keys, focus, num_pages, streams>>
  /\ UNCHANGED loaderVars
  /\ UNCHANGED fileVars

\* The record numbered by the count before the append.
CountBefore(o, id) ==
  [id |-> id, number |-> Len(o), generation |-> 0, offset |-> 0, value |-> "dict"]

\* The record pdfioFileCreateObject() initialises: number is the count
\* after the append.
CreatedObj(o, id) ==
  [id |-> id, number |-> Len(o) + 1, generation |-> 0, offset |-> 0, value |-> "dict"]

\* Calls of pdfioFileCreateObject on a written file are counted by what
\* they leave behind: a record or a message.  On a file opened for reading
\* the call with a dictionary returns NULL and changes nothing.
pdfioFileCreateObject ==
  /\ pc \in {"created", "opened"}
  /\ pc = "created" => Len(objs) + Len(errs) < MaxCreate
  /\ \/ \* !dict
        /\ mode = "write"
        /\ errs' = Append(errs, "Missing object dictionary.")
        /\ UNCHANGED <<objs, alloc_objs, heap, nalloc>>
     \/ \* pdf->mode != _PDFIO_MODE_WRITE
        /\ mode # "write"
        /\ UNCHANGED <<errs, objs, alloc_objs, heap, nalloc>>
     \/ \* calloc of the record fails
        /\ mode = "write"
        /\ errs' = Append(errs, "Unable to allocate memory for object")
        /\ UNCHANGED <<objs, alloc_objs, heap, nalloc>>
     \/ \* realloc of pdf->objs fails: free(obj)
        /\ mode = "write"
        /\ Len(objs) >= alloc_objs
        /\ errs' = Append(errs, "Unable to allocate memory for object")
        /\ nalloc' = nalloc + 1
        /\ heap' = AfterReallocFailure(heap \cup {nalloc + 1}, nalloc + 1)
        /\ UNCHANGED <<objs, alloc_objs>>
     \/ /\ mode = "write"
        /\ nalloc' = nalloc + 1
        /\ heap' = heap \cup {nalloc + 1}
        /\ alloc_objs' = IF Len(objs) >= alloc_objs THEN alloc_objs + AllocStep ELSE alloc_objs
        /\ objs' = Append(objs, CreatedObj(objs, nalloc + 1))
        /\ UNCHANGED errs
  /\ UNCHANGED <<pc, pdf, mode, fd, opens, closes, pdf_trailer, root, asked, trailer_sets, cause, keys, focus, num_pages, streams>>
  /\ UNCHANGED loaderVars
  /\ UNCHANGED fileVars

(* ------------------------------------------------------------------ *)
(* pdfioFileOpen                                                       *)
(* ------------------------------------------------------------------ *)

\* pdfioFileOpen() up to the open() call.
pdfioFileOpen ==
  /\ pc = "idle"
  /\ \/ \* !filename
        /\ pc' = "failed"
        /\ UNCHANGED <<errs, pdf, mode, fd, opens>>
     \/ \* calloc of the pdfio_file_t fails
        /\ pc' = "failed"
        /\ errs' = Append(errs, "Unable to allocate memory for PDF file")
        /\ UNCHANGED <<pdf, mode, fd, opens>>
     \/ \* open() fails
        /\ pc' = "failed"
        /\ errs' = Append(errs, "Unable to open file")
        /\ pdf' = "freed" /\ mode' = "read"
        /\ UNCHANGED <<fd, opens>>
     \/ /\ pc' = "header"
        /\ pdf' = "live" /\ mode' = "read"
        /\ fd' = "open" /\ opens' = opens + 1
        /\ UNCHANGED errs
  /\ UNCHANGED <<closes, objs, alloc_objs, heap, nalloc, pdf_trailer, root, asked, trailer_sets, cause, keys, focus, num_pages, streams>>
  /\ UNCHANGED loaderVars
  /\ UNCHANGED fileVars

\* pdfioFileOpen(): the header line and the startxref marker.
ReadHeader ==
  /\ pc = "header"
  /\ \/ \* _pdfioFileGets fails
        Fail(Cur, <<>>)
     \/ \E msg \in {"Bad header", "Unable to read startxref data.",
                    "Unable to find start of xref table."} :
          Fail(Cur, <<msg>>)
     \/ /\ pc' = "load_xref"
        /\ xref_offset' \in XOffs
        /\ UNCHANGED <<errs, number, num_objects, trailer, w, line, sub, named, sobjs, i, os>>
        /\ UNCHANGED handleVars
        /\ UNCHANGED fileVars
  /\ UNCHANGED streams

(* ------------------------------------------------------------------ *)
(* load_xref: one section of the chain                                 *)
(* ------------------------------------------------------------------ *)

Range(q) == {q[k] : k \in 1..Len(q)}

\* The items a run reads from the file at most: MaxReads where the runs are
\* about the chain of sections or the payloads, one more where they are
\* about compressed records of several sections, one less elsewhere.
ReadLimit ==
  IF focus = "expand" THEN MaxReads + 1
  ELSE IF focus \in {"chain", "cycle", "payload"} THEN MaxReads
  ELSE MaxReads - 1

\* The /Prev values a trailer read after the sections in ch can hold: none
\* or <= 0 (0), or the offset of a section not loaded yet.  rd items of the
\* file are read by then, and an older section is at least one more.
PrevChoices(ch, rd) ==
  IF Len(ch) < MaxSections /\ rd < ReadLimit
    THEN {0} \cup (XOffs \ Range(ch))
    ELSE {0}

\* The /Prev values that lead back to a section already loaded: drawn only
\* in the runs on files with cycles, and there only while every section
\* loaded is a classical table.
Revisits ==
  IF focus = "cycle" /\ \A k \in 1..Len(objs) : objs[k].offset \notin XOffs
    THEN Range(chain)
    ELSE {}

\* Was the section at xref_offset loaded before in this open?
Revisit == xref_offset \in Range(chain)

\* The items of the file still to come after the xref stream being read: the
\* section its /Prev names.
Reserved == IF trailer.prev > 0 THEN 1 ELSE 0

\* The first object numbers the /Index array of an xref stream can give.
IndexFirsts == Nums

\* w[], w_total, w_2 and w_3 are size_t: 64 bits without a sign.  A value
\* below 2^31 is kept as it is and a value v above 2^64 - 2^31 as v - 2^64,
\* so that the sum of two kept values is the kept value of their sum
\* modulo 2^64.  Wrap is the distance from 2^64 of the one width of that
\* size the files of the runs hold.
Wrap == 2048

\* a > b for a size_t a and a small b: a kept value below 0 is above b.
Above(a, b) == a < 0 \/ a > b

\* The /W arrays an xref stream can carry: one that passes the test and two
\* that do not and, in the runs on the widths, also one without a type
\* column and one whose type column is two bytes wide; in the runs on the
\* buffers, also one whose widths add up to the size of buffer and one
\* whose first width is 2^64 - Wrap.
WInputs ==
  {<<1, 1, 1>>, <<1, 0, 1>>, <<1, 1, 3>>}
    \cup (IF focus = "widths"
            THEN {<<0, 1, 1>>, <<2, 1, 1>>, <<BufferSize - 2, 2, 1>>}
            ELSE {})
    \cup (IF focus = "buffers"
            THEN {<<BufferSize - 3, 1, 2>>, <<0 - Wrap, Wrap + 1, 0>>}
            ELSE {})

\* No /W in the dictionary of the xref stream.
NoWKey == <<>>

\* The numbers of values the /Index array of an xref stream can hold: one
\* (first, count) pair, or two pairs.
IndexSizes == {2, 4}

\* A /W array passing for valid whatever it holds.
AnyW(ww) == FALSE

\* The /W test of load_xref.
WInvalid(ww) ==
  ww[2] = 0 \/ Above(ww[3], 2) \/ Above(ww[1] + ww[2] + ww[3], BufferSize)

\* The tests of the dictionary of an xref stream between "stream" and the
\* opening of its decode stream, for an /Index of nv values and the /W
\* array ww: the message reported, or "ok".
StreamDictCheck(nv, ww) ==
  IF nv > 2 THEN "Multiple indices not supported in cross-reference stream."
  ELSE IF ww = NoWKey THEN "Cross-reference stream does not have required W key."
  ELSE IF WInvalid(ww) THEN "Cross-reference stream has invalid W key."
  ELSE "ok"

\* The xref entry read for object n in the section at sec.
Entry(sec, type, generation, offset) ==
  [sec |-> sec, type |-> type, generation |-> generation, offset |-> offset]

\* The top of the while loop: seek to xref_offset, read one line, and for
\* an xref stream everything up to the opening of its decode stream.
LoadXrefSection ==
  /\ pc = "load_xref"
  /\ Revisit \/ reads < ReadLimit
  /\ \/ \E msg \in {"Unable to seek to start of xref table.",
                    "Unable to read start of xref table.",
                    "Bad xref table header"} :
          /\ Fail(Cur, <<msg>>)
          /\ UNCHANGED streams
     \/ \* "N G obj": add_obj() for the xref stream object fails
        \E n \in SelfNums :
        \E r \in {x \in add_obj(n, 0, xref_offset) : x.obj = NULL} :
          /\ ~Revisit
          /\ Fail(r, <<"Unable to allocate memory for object.">>)
          /\ UNCHANGED streams
     \/ \* "N G obj": a later check of the stream object fails
        \E n \in SelfNums :
        \E r \in {x \in add_obj(n, 0, xref_offset) : x.obj # NULL} :
        \E msg \in {"Unable to read cross-reference stream dictionary.",
                    "Cross-reference stream does not have a dictionary.",
                    "Unable to get stream after xref dictionary.",
                    "Unable to open cross-reference stream."} :
          /\ ~Revisit
          /\ Fail(r, <<msg>>)
          /\ UNCHANGED streams
     \/ \* "N G obj": /Index or /W fails its test
        \E n \in SelfNums, nv \in IndexSizes, ww \in WInputs \cup {NoWKey} :
        \E r \in {x \in add_obj(n, 0, xref_offset) : x.obj # NULL} :
          /\ ~Revisit
          /\ StreamDictCheck(nv, ww) # "ok"
          /\ FailAt(StreamDictCheck(nv, ww),
                    [index |-> nv, w |-> ww, before |-> nalloc],
                    r, <<StreamDictCheck(nv, ww)>>)
          /\ UNCHANGED streams
     \/ \* "N G obj": the decode stream of the xref stream is open
        \E n \in SelfNums, first \in IndexFirsts :
        \E nv \in IndexSizes, ww \in WInputs \cup {NoWKey} :
        \E r \in {x \in add_obj(n, 0, xref_offset) : x.obj # NULL} :
          /\ ~Revisit
          /\ StreamDictCheck(nv, ww) = "ok"
          /\ pc' = "xs_read"
          /\ Store([r EXCEPT !.objs = WithValue(r.objs, r.obj, "dict")])
          /\ chain' = Append(chain, xref_offset)
          /\ trailer' \in {[off |-> xref_offset, prev |-> p] : p \in PrevChoices(Append(chain, xref_offset), reads + 1)}
          /\ number' = first
          /\ w' = ww
          /\ sobjs' = <<>>
          /\ i' = 0
          /\ streams' = streams \cup {"xref"}
          /\ sub' = [NoSub EXCEPT !.first = first]
          /\ named' = {}
          /\ UNCHANGED <<xref_offset, num_objects, os, line>>
          /\ UNCHANGED <<pdf, mode, fd, opens, closes, pdf_trailer, root, asked, trailer_sets, cause, keys, focus, num_pages>>
          /\ reads' = reads + 1
          /\ seen' = [seen EXCEPT ![n] = Append(@, Entry(xref_offset, "x", 0, xref_offset))]
          /\ UNCHANGED <<hdrs, prevs>>
     \/ \* "xref": a section loaded before reads as it did then
        /\ pc' = "cl_sub"
        /\ chain' = IF Revisit THEN chain ELSE Append(chain, xref_offset)
        /\ number' = 1
        /\ UNCHANGED <<errs, streams, xref_offset, num_objects, trailer, w, line, sub, named, sobjs, i, os>>
        /\ UNCHANGED handleVars
        /\ reads' = IF Revisit THEN reads ELSE reads + 1
        /\ UNCHANGED <<seen, hdrs, prevs>>

\* The parent numbers queued for later: sobjs after the dedup scan and the
\* capacity test.
Enqueued(q, parent) ==
  IF parent \notin Range(q) /\ Len(q) < SobjsMax THEN Append(q, parent) ELSE q

\* The bytes of column 0 of a record, most significant first: the types 0,
\* 1 and 2 at every width, and at two bytes also the value 256.
Col0s(ww) ==
  IF ww[1] = 0 THEN {<<>>}
  ELSE IF ww[1] = 1 THEN {<<0>>, <<1>>, <<2>>}
  ELSE {<<0, 0>>, <<0, 1>>, <<0, 2>>, <<1, 0>>}

\* The value of the bytes c, most significant first.
RECURSIVE BigEndian(_)
BigEndian(c) ==
  IF c = <<>> THEN 0
  ELSE 256 * BigEndian(SubSeq(c, 1, Len(c) - 1)) + c[Len(c)]

\* The type a record gives: the value of column 0, or 1 without the column.
FileType(ww, c0) == IF ww[1] = 0 THEN 1 ELSE BigEndian(c0)

\* The type load_xref takes the record for: free when w[0] > 0 and
\* buffer[0] is 0, compressed when w[0] > 0 and buffer[0] is 2, else in use.
CodeType(ww, c0) ==
  IF ww[1] # 0 /\ c0[1] = 0 THEN 0
  ELSE IF ww[1] # 0 /\ c0[1] = 2 THEN 2
  ELSE 1

\* The places of buffer the loop reads to decode the record whose column 0
\* is c0: buffer[0] when w[0] > 0 and, unless the record is free,
\* buffer[w_2 + i] for i < w[1] (buffer[w_2] whatever w[1] is), then
\* buffer[w_3] when w[2] is 1, and buffer[w_3 + 1] too when it is 2.
Indices(ww, c0) ==
  LET w_2 == ww[1]
      w_3 == ww[1] + ww[2]
  IN  (IF ww[1] # 0 THEN {0} ELSE {})
        \cup (IF CodeType(ww, c0) = 0 THEN {}
              ELSE {w_2} \cup {w_2 + k : k \in 1..(ww[2] - 1)}
                     \cup (IF ww[3] = 1 THEN {w_3}
                           ELSE IF ww[3] = 2 THEN {w_3, w_3 + 1}
                           ELSE {}))

\* Are the places ix all inside buffer?
InBuffer(ix) == \A j \in ix : j >= 0 /\ j < BufferSize

\* The type a record gives, as the entries read are kept: free, in use,
\* compressed, or a value that is none of the three.
TypeName(t) ==
  IF t = 0 THEN "f" ELSE IF t = 1 THEN "n" ELSE IF t = 2 THEN "c" ELSE "u"
\* The generation of the record just read: column 2 when w[2] > 0, else 0.
RecordGens(ww, xoff) == IF ww[3] > 0 THEN {EntryGen(xoff)} ELSE {0}

\* Is number already in the index?  The test that lets the newer revision win.
Present(o, n) == pdfioFileFindObject(o, n) # NULL

\* Is n the number of the xref stream object at xoff?  add_obj() stored that
\* record with the offset of the section.
IsSelf(o, xoff, n) ==
  \E k \in 1..Len(o) : o[k].offset = xoff /\ o[k].number = n

\* The loop goes on with the number it had.
Stay(n) == n

\* "number ++": the number the next entry of the subsection is taken for.
Advance(n) == n + 1

\* The entry e was read for object n, decoded from the places ix of buffer.
ReadAt(n, e, ix) ==
  /\ reads' = reads + 1
  /\ sub' = [sub EXCEPT !.k = @ + 1, !.last = n, !.idx = ix]
  /\ seen' = [seen EXCEPT ![n] = Append(@, e)]
  /\ UNCHANGED <<chain, hdrs, prevs>>

\* The entry e was read for object n.
Read(n, e) ==
  /\ reads' = reads + 1
  /\ sub' = [sub EXCEPT !.k = @ + 1, !.last = n, !.idx = {}]
  /\ seen' = [seen EXCEPT ![n] = Append(@, e)]
  /\ UNCHANGED <<chain, hdrs, prevs>>

\* One iteration of "while (pdfioStreamRead(st, buffer, w_total) > 0)".
XrefStreamRecord ==
  /\ pc = "xs_read"
  /\ number <= MaxNum
  /\ reads + Reserved < ReadLimit
  /\ \E c0 \in Col0s(w), g \in RecordGens(w, xref_offset), parent \in 1..MaxNum :
       LET self == IsSelf(objs, xref_offset, number)
           \* what the record says, and what the loop takes it for
           ftype == FileType(w, c0)
           type == CodeType(w, c0)
           offset == IF ftype = 2 THEN parent
                     ELSE IF self THEN xref_offset
                     ELSE EntryOffset(xref_offset, number)
           e == Entry(xref_offset, TypeName(ftype),
                      IF ftype = 2 \/ self THEN 0 ELSE g, offset)
       IN
       /\ ftype # 2 => parent = 1
       \* the record an xref stream holds for itself says where it is
       /\ self => ftype = 1
       \* a place outside buffer is read: the loop stops there, or it goes
       \* on with whatever it read
       /\ \/ /\ ~InBuffer(Indices(w, c0))
             /\ pc' = "crashed"
             /\ ReadAt(number, e, Indices(w, c0))
             /\ UNCHANGED <<errs, sobjs, os, number>>
             /\ UNCHANGED handleVars
             /\ UNCHANGED <<xref_offset, num_objects, trailer, w, line, named, i>>
          \/ \* a free record, or a number that is already in the index
             /\ type = 0 \/ Present(objs, number)
             /\ number' = Advance(number)
             /\ ReadAt(number, e, Indices(w, c0))
             /\ UNCHANGED <<pc, errs, sobjs, os>>
             /\ UNCHANGED handleVars
             /\ UNCHANGED <<xref_offset, num_objects, trailer, w, line, named, i>>
          \/ \* compressed, and the parent is in the index: load it now
             /\ type = 2 /\ ~Present(objs, number)
             /\ Present(objs, offset)
             /\ pc' = "os_open"
             /\ os' = [NoCall EXCEPT !.obj = offset, !.ret = "xs_read"]
             /\ ReadAt(number, e, Indices(w, c0))
             /\ UNCHANGED <<errs, sobjs, number>>
             /\ UNCHANGED handleVars
             /\ named' = named \cup {offset}
             /\ UNCHANGED <<xref_offset, num_objects, trailer, w, line, i>>
          \/ \* compressed, and the parent is not in the index: queue it
             /\ type = 2 /\ ~Present(objs, number)
             /\ ~Present(objs, offset)
             /\ sobjs' = Enqueued(sobjs, offset)
             /\ number' = Advance(number)
             /\ ReadAt(number, e, Indices(w, c0))
             /\ UNCHANGED <<pc, errs, os>>
             /\ UNCHANGED handleVars
             /\ named' = named \cup {offset}
             /\ UNCHANGED <<xref_offset, num_objects, trailer, w, line, i>>
          \/ \* in use: add_obj() stores the placeholder
             /\ type = 1 /\ ~Present(objs, number)
             /\ \E r \in {x \in add_obj(number, g, offset) : x.obj # NULL} :
                  Store(r)
             /\ number' = Advance(number)
             /\ ReadAt(number, e, Indices(w, c0))
             /\ UNCHANGED <<pc, sobjs, os>>
             /\ UNCHANGED <<pdf, mode, fd, opens, closes, pdf_trailer, root, asked, trailer_sets, cause, keys, focus, num_pages>>
             /\ UNCHANGED <<xref_offset, num_objects, trailer, w, line, named, i>>
          \/ \* in use: add_obj() fails, load_xref returns false
             /\ type = 1 /\ ~Present(objs, number)
             /\ \E r \in {x \in add_obj(number, g, offset) : x.obj = NULL} :
                  Fail(r, <<>>)
  /\ UNCHANGED streams

\* pdfioStreamRead() returns <= 0: pdfioStreamClose(st), then the queue.
XrefStreamEnd ==
  /\ pc = "xs_read"
  /\ pc' = "xs_drain"
  /\ streams' = streams \ {"xref"}
  /\ i' = 0
  /\ UNCHANGED <<errs, xref_offset, number, num_objects, trailer, w, line, sub, named, sobjs, os>>
  /\ UNCHANGED handleVars
  /\ UNCHANGED fileVars

\* One iteration of "for (i = 0; i < num_sobjs; i ++)", or its end.
DrainSobjs ==
  /\ pc = "xs_drain"
  /\ \/ /\ i < Len(sobjs)
        /\ Present(objs, sobjs[i + 1])
        /\ pc' = "os_open"
        /\ os' = [NoCall EXCEPT !.obj = sobjs[i + 1], !.ret = "xs_drain"]
        /\ UNCHANGED <<errs, xref_offset, number, num_objects, trailer, w, line, sub, named, sobjs, i>>
        /\ UNCHANGED handleVars
        /\ UNCHANGED fileVars
     \/ /\ i < Len(sobjs)
        /\ ~Present(objs, sobjs[i + 1])
        /\ Fail(Cur, <<"Unable to find compressed object stream">>)
     \/ /\ i >= Len(sobjs)
        /\ pc' = "chain"
        /\ UNCHANGED errs
        /\ UNCHANGED loaderVars
        /\ UNCHANGED handleVars
        /\ UNCHANGED fileVars
  /\ UNCHANGED streams

(* ------------------------------------------------------------------ *)
(* load_obj_stream                                                     *)
(* ------------------------------------------------------------------ *)

\* The object numbers an object stream can list at its head.
RECURSIVE SeqsUpTo(_, _)
SeqsUpTo(S, n) ==
  IF n = 0 THEN {<<>>}
  ELSE LET shorter == SeqsUpTo(S, n - 1)
       IN  shorter \cup {Append(q, x) : q \in {t \in shorter : Len(t) = n - 1}, x \in S}

Headers == SeqsUpTo(1..MaxNum, MaxHdr)

\* load_obj_stream() returned true to the loop that called it.
Returned ==
  /\ pc' = os.ret
  /\ os' = NoCall
  /\ number' = IF os.ret = "xs_read" THEN Advance(number) ELSE number
  /\ i' = IF os.ret = "xs_drain" THEN i + 1 ELSE i
  /\ UNCHANGED <<xref_offset, num_objects, trailer, w, line, sub, named, sobjs>>

\* The tokens of the header that lists the object numbers pairs, each
\* followed by an offset.
RECURSIVE HeaderTokens(_)
HeaderTokens(pairs) ==
  IF pairs = <<>> THEN <<>>
  ELSE <<Tok("num", TRUE, Head(pairs), 0), Tok("off", TRUE, 0, 0)>>
         \o HeaderTokens(Tail(pairs))

\* The payload of an object stream of the objects pairs: the header (odd:
\* without its last offset), then one value per entry of vals, a number
\* ("n", it begins with a digit) or anything else ("d").
Tokens(pairs, odd, vals) ==
  LET h == HeaderTokens(pairs)
  IN  (IF odd THEN SubSeq(h, 1, Len(h) - 1) ELSE h)
        \o [j \in 1..Len(vals) |->
              Tok("val", vals[j] = "n", IF vals[j] = "n" THEN MaxNum ELSE 0,
                  IF j <= Len(pairs) THEN pairs[j] ELSE 0)]

\* The payloads an object stream can hold: a header of up to MaxHdr pairs
\* and a value that does not begin with a digit for each, or no header and
\* one such value; in the runs on payloads also those whose first value is
\* a number and those whose header lacks its last offset.
Payloads ==
  {Tokens(p, FALSE, [j \in 1..Len(p) |-> "d"]) : p \in Headers}
    \cup {Tokens(<<>>, FALSE, <<"d">>)}
    \cup (IF focus = "payload"
            THEN {Tokens(p, FALSE, [j \in 1..Len(p) |-> IF j = 1 THEN "n" ELSE "d"]) :
                    p \in Headers \ {<<>>}}
                 \cup {Tokens(p, TRUE, [j \in 1..Len(p) |-> "d"]) :
                         p \in Headers \ {<<>>}}
            ELSE {})

\* The header loop of load_obj_stream on the tokens T from place k on, with
\* the numbers nums read so far: a token that begins with a digit is taken
\* for an object number and the token after it is skipped; the loop ends at
\* the first token that does not begin with a digit, or where no token is
\* left.
RECURSIVE Scan(_, _, _)
Scan(T, k, nums) ==
  IF k > Len(T) \/ ~T[k].digit THEN [nums |-> nums, at |-> k]
  ELSE Scan(T, k + 2, Append(nums, T[k].n))

ScanHeader(T) == Scan(T, 1, <<>>)

\* pdfioObjOpenStream(obj, true) at the top of load_obj_stream().  The
\* payload of a stream is the same each time the stream is read.
ObjStreamOpen ==
  /\ pc = "os_open"
  /\ \/ /\ Fail(Cur, <<"Unable to open compressed object stream">>)
        /\ UNCHANGED streams
     \/ /\ pc' = "os_hdr"
        /\ streams' = streams \cup {"objstm"}
        /\ \E T \in (IF hdrs[os.obj] = Unread
                       THEN {x \in Payloads :
                               reads + Len(ScanHeader(x).nums) + Reserved <= ReadLimit}
                       ELSE {hdrs[os.obj]}) :
             /\ hdrs' = [hdrs EXCEPT ![os.obj] = T]
             /\ os' = [os EXCEPT !.toks = T,
                                 !.hdr = ScanHeader(T).nums,
                                 !.at = ScanHeader(T).at,
                                 !.again = hdrs[os.obj] # Unread]
             /\ reads' = IF hdrs[os.obj] = Unread
                           THEN reads + Len(ScanHeader(T).nums) ELSE reads
        /\ UNCHANGED <<errs, xref_offset, number, num_objects, trailer, w, line, sub, named, sobjs, i>>
        /\ UNCHANGED handleVars
        /\ UNCHANGED <<chain, seen, prevs>>

\* One iteration of "while (_pdfioTokenGet(&tb, buffer, sizeof(buffer)))",
\* or its end.  objs[] holds the id add_obj() returned: NULL when it failed.
ObjStreamHeader ==
  /\ pc = "os_hdr"
  /\ \/ \* an object number: too many, or add_obj() and skip the offset
        /\ Len(os.objs) < Len(os.hdr)
        /\ IF Len(os.objs) >= ObjStmMax
             THEN /\ Fail(Cur, <<"Too many compressed objects in one stream.">>)
                  /\ streams' = streams \ {"objstm"}
             ELSE /\ \E r \in add_obj(os.hdr[Len(os.objs) + 1], 0, 0) :
                       /\ Store(r)
                       /\ os' = [os EXCEPT !.objs = Append(@, r.obj)]
                  /\ UNCHANGED <<pc, streams>>
                  /\ UNCHANGED <<pdf, mode, fd, opens, closes, pdf_trailer, root, asked, trailer_sets, cause, keys, focus, num_pages>>
                  /\ UNCHANGED <<xref_offset, number, num_objects, trailer, w, line, sub, named, sobjs, i>>
                  /\ UNCHANGED fileVars
     \/ \* no token is left and buffer[0] is 0: close the stream, return false
        /\ Len(os.objs) = Len(os.hdr)
        /\ os.at > Len(os.toks)
        /\ Fail(Cur, <<>>)
        /\ streams' = streams \ {"objstm"}
     \/ \* buffer[0] is not 0: push buffer back and read the values.  buffer
        \* holds the token that is no number or, where no token is left,
        \* what the last call left in it: the last token of the payload
        \* (of a payload without tokens buffer was never written)
        /\ Len(os.objs) = Len(os.hdr)
        /\ pc' = "os_val"
        /\ os' = [os EXCEPT !.at = IF @ > Len(os.toks) THEN Len(os.toks) ELSE @]
        /\ UNCHANGED <<errs, streams>>
        /\ UNCHANGED <<xref_offset, number, num_objects, trailer, w, line, sub, named, sobjs, i>>
        /\ UNCHANGED handleVars
        /\ UNCHANGED fileVars

\* One iteration of "for (cur_obj = 0; cur_obj < num_objs; cur_obj ++)", or
\* the return after it.  The values are read from the token pushed back on.
ObjStreamValue ==
  /\ pc = "os_val"
  /\ \/ \* _pdfioValueRead() fails, on a bad value or because no token is
        \* left: close the stream, return false
        /\ os.cur_obj < Len(os.objs)
        /\ Fail(Cur, <<>>)
        /\ streams' = streams \ {"objstm"}
     \/ \* the value is stored in the record objs[cur_obj] points to
        /\ os.cur_obj < Len(os.objs)
        /\ os.at >= 1
        /\ os.at + os.cur_obj <= Len(os.toks)
        /\ os.objs[os.cur_obj + 1] # NULL
        /\ objs' = WithValue(objs, os.objs[os.cur_obj + 1], "parsed")
        /\ os' = [os EXCEPT !.cur_obj = @ + 1,
                            !.got = Append(@, os.toks[os.at + os.cur_obj].owner)]
        /\ UNCHANGED <<pc, errs, streams>>
        /\ UNCHANGED <<pdf, mode, fd, opens, closes, alloc_objs, heap, nalloc,
                       pdf_trailer, root, asked, trailer_sets, cause, keys, focus, num_pages>>
        /\ UNCHANGED <<xref_offset, number, num_objects, trailer, w, line, sub, named, sobjs, i>>
        /\ UNCHANGED fileVars
     \/ \* objs[cur_obj] is NULL: the value is stored through a null pointer
        /\ os.cur_obj < Len(os.objs)
        /\ os.objs[os.cur_obj + 1] = NULL
        /\ pc' = "crashed"
        /\ UNCHANGED <<errs, streams>>
        /\ UNCHANGED loaderVars
        /\ UNCHANGED handleVars
        /\ UNCHANGED fileVars
     \/ \* all values read: close the stream, return true
        /\ os.cur_obj >= Len(os.objs)
        /\ streams' = streams \ {"objstm"}
        /\ Returned
        /\ UNCHANGED errs
        /\ UNCHANGED handleVars
        /\ UNCHANGED fileVars

(* ------------------------------------------------------------------ *)
(* load_xref: the classical table                                      *)
(* ------------------------------------------------------------------ *)

\* One iteration of "while (_pdfioFileGets(pdf, line, sizeof(line)))", up
\* to the first entry of the subsection, or the trailer after the loop.
\* Subsections of one table come in increasing order of object number.
\* When the table is read a second time its entries are the ones read the
\* first time: each is free or names a number that is in the index by now,
\* so the entry loop changes nothing and the pass goes on to the trailer,
\* which holds the /Prev it held before.
ClassicSubsection ==
  /\ pc = "cl_sub"
  /\ \/ \E msg \in {"Malformed xref table section", "Missing trailer.",
                    "Unable to read trailer dictionary.",
                    "Trailer is not a dictionary."} :
          Fail(Cur, <<msg>>)
     \/ \* "first count"
        \E first \in Nums, count \in 1..(MaxNum + 1) :
          /\ prevs[xref_offset] = Unknown
          /\ first >= number
          /\ first + count - 1 <= MaxNum
          /\ reads + count <= ReadLimit
          /\ pc' = "cl_entry"
          /\ number' = first
          /\ num_objects' = count
          /\ sub' = [NoSub EXCEPT !.first = first]
          /\ UNCHANGED <<errs, xref_offset, trailer, w, line, named, sobjs, i, os>>
          /\ UNCHANGED handleVars
          /\ UNCHANGED fileVars
     \/ \* "trailer" and its dictionary
        /\ pc' = "chain"
        /\ \E p \in (IF prevs[xref_offset] = Unknown
                       THEN PrevChoices(chain, reads) \cup Revisits
                       ELSE {prevs[xref_offset]}) :
             /\ trailer' = [off |-> xref_offset, prev |-> p]
             /\ prevs' = [prevs EXCEPT ![xref_offset] = p]
        /\ UNCHANGED <<errs, xref_offset, number, num_objects, w, line, sub, named, sobjs, i, os>>
        /\ UNCHANGED handleVars
        /\ UNCHANGED <<chain, reads, seen, hdrs>>
  /\ UNCHANGED streams

\* The loop header of the entry loop: "num_objects --, number ++", then
\* back to the subsection loop when num_objects is 0.
NextEntry ==
  /\ pc' = IF num_objects - 1 > 0 THEN "cl_entry" ELSE "cl_sub"
  /\ num_objects' = num_objects - 1
  /\ number' = Advance(number)
  /\ UNCHANGED <<xref_offset, trailer, w, named, sobjs, i, os>>

\* The last two of the 20 bytes of an entry, by name: CR LF, space LF,
\* space CR, or two bytes that are none of these.
GoodEols == {"CRLF", "SPLF", "SPCR"}
Eols     == GoodEols \cup {"LFLF"}

\* The largest generation an entry can give.
GenMax == 65535

\* The bytes of an entry for object n of the section at xoff, by field:
\* read is what _pdfioFileRead(pdf, line, 20) returns, sep the byte after
\* the generation, type the byte after that.
GoodEntry(xoff, n, type) ==
  [read |-> 20, eol |-> "SPLF", offset |-> EntryOffset(xoff, n),
   generation |-> EntryGen(xoff), sep |-> " ", type |-> type]

\* The entries the file can hold at that place: in the runs on entries, a
\* good one with any line end and every entry that is wrong in one field;
\* elsewhere a free one, an in-use one, one cut short by the end of the
\* file and one with a wrong line end.
EntryInputs(xoff, n) ==
  LET f == GoodEntry(xoff, n, "f")
      u == GoodEntry(xoff, n, "n")
  IN  IF focus = "entries"
        THEN {[g EXCEPT !.eol = x] : g \in {f, u}, x \in Eols}
             \cup {[u EXCEPT !.read = 19], [u EXCEPT !.offset = -1],
                   [u EXCEPT !.generation = -1], [u EXCEPT !.generation = GenMax],
                   [u EXCEPT !.generation = GenMax + 1],
                   [u EXCEPT !.sep = "0"], [u EXCEPT !.type = "x"]}
        ELSE {f, u, [u EXCEPT !.read = 19], [u EXCEPT !.eol = "LFLF"]}

\* What the entry loop makes of the entry e: "short" when fewer than 20
\* bytes were read, "malformed" when one of its tests fails, else the type
\* 'f' or 'n'.
ParseEntry(e) ==
  IF e.read # 20 THEN "short"
  ELSE IF e.eol \notin {"CRLF", "SPLF", "SPCR"} THEN "malformed"
  ELSE IF e.offset < 0 THEN "malformed"
  ELSE IF e.generation < 0 \/ e.generation > GenMax THEN "malformed"
  ELSE IF e.sep # " " THEN "malformed"
  ELSE IF e.type \notin {"f", "n"} THEN "malformed"
  ELSE e.type

\* One iteration of "for (; num_objects > 0; num_objects --, number ++)".
ClassicEntry ==
  /\ pc = "cl_entry"
  /\ \E e \in EntryInputs(xref_offset, number) :
       \/ \* fewer than 20 bytes left
          /\ ParseEntry(e) = "short"
          /\ FailAt("xref entry", e, Cur, <<>>)
       \/ \* the 20 bytes are not an entry
          /\ ParseEntry(e) = "malformed"
          /\ FailAt("xref entry", e, Cur, <<"Malformed xref table entry">>)
       \/ \* 'f'
          /\ ParseEntry(e) = "f"
          /\ Read(number, Entry(xref_offset, "f", 0, 0))
          /\ NextEntry
          /\ line' = e
          /\ UNCHANGED errs
          /\ UNCHANGED handleVars
       \/ \* 'n', and the number is in the index
          /\ ParseEntry(e) = "n"
          /\ Present(objs, number)
          /\ Read(number, Entry(xref_offset, "n", e.generation, e.offset))
          /\ NextEntry
          /\ line' = e
          /\ UNCHANGED errs
          /\ UNCHANGED handleVars
       \/ \* 'n': add_obj() stores the placeholder
          /\ ParseEntry(e) = "n"
          /\ ~Present(objs, number)
          /\ \E r \in {x \in add_obj(number, e.generation, e.offset) : x.obj # NULL} :
               Store(r)
          /\ Read(number, Entry(xref_offset, "n", e.generation, e.offset))
          /\ NextEntry
          /\ line' = e
          /\ UNCHANGED <<pdf, mode, fd, opens, closes, pdf_trailer, root, asked, trailer_sets, cause, keys, focus, num_pages>>
       \/ \* 'n': add_obj() fails, load_xref returns false
          /\ ParseEntry(e) = "n"
          /\ ~Present(objs, number)
          /\ \E r \in {x \in add_obj(number, e.generation, e.offset) : x.obj = NULL} :
               Fail(r, <<>>)
  /\ UNCHANGED streams

(* ------------------------------------------------------------------ *)
(* load_xref: chain continuation and trailer assembly                  *)
(* ------------------------------------------------------------------ *)

\* The assignment without its test: every section's trailer replaces the
\* one before.
Overwrite(cur, t) == t.off

\* "if (!pdf->trailer) pdf->trailer = trailer.value.dict": the composite
\* trailer after the section whose dictionary is t.
Composite(cur, t) == IF cur = NULL THEN t.off ELSE cur

\* The end of one pass of the while loop.  number, num_objects, w, sobjs
\* and i are dead here: the next pass writes each before it reads it.
ChainStep ==
  /\ pc = "chain"
  /\ pdf_trailer' = Composite(pdf_trailer, trailer)
  /\ trailer_sets' = IF pdf_trailer' # pdf_trailer THEN trailer_sets + 1
                                                  ELSE trailer_sets
  /\ xref_offset' = trailer.prev
  /\ pc' = IF trailer.prev <= 0 THEN "finish" ELSE "load_xref"
  /\ number' = 0 /\ num_objects' = 0 /\ w' = NoW /\ sobjs' = <<>> /\ i' = 0
  /\ line' = NoLine /\ sub' = NoSub /\ named' = {}
  /\ UNCHANGED <<pdf, mode, fd, opens, closes, objs, alloc_objs, heap, nalloc,
                 root, asked, num_pages, cause, keys, focus>>
  /\ UNCHANGED <<errs, streams, trailer, os>>
  /\ UNCHANGED fileVars

(* ------------------------------------------------------------------ *)
(* load_pages                                                          *)
(* ------------------------------------------------------------------ *)

\* What load_pages() can meet at a node of the page tree: no object, an
\* object without a dictionary, a /Type that is neither Pages nor Page, a
\* node without /Kids (a page; "page_nomem": realloc() of pdf->pages fails
\* when it is called), or a node with /Kids.
LeafKinds == {"null", "nodict", "badtype", "page", "page_nomem"}
Leaves == {[kind |-> k, kids |-> <<>>] : k \in LeafKinds}
PageTrees ==
  Leaves \cup {[kind |-> "pages", kids |-> ks] : ks \in SeqsUpTo(Leaves, MaxKids)}

NoPages == [ok |-> TRUE, num_pages |-> 0, alloc_pages |-> 0, msgs |-> <<>>]

\* load_pages() on a node without /Kids, from the result p so far.
AddPage(kind, p) ==
  IF p.num_pages >= p.alloc_pages /\ kind = "page_nomem"
    THEN [p EXCEPT !.ok = FALSE,
                   !.msgs = Append(@, "Unable to allocate memory for pages.")]
    ELSE [p EXCEPT !.num_pages = @ + 1,
                   !.alloc_pages = IF p.num_pages >= @ THEN @ + AllocStep ELSE @]

\* load_pages(pdf, obj) on the node obj, from the result p so far; the loop
\* over /Kids stops at the first child that fails.
RECURSIVE load_pages(_, _)
RECURSIVE load_kids(_, _, _)
load_kids(kids, k, p) ==
  IF k > Len(kids) \/ ~p.ok THEN p
  ELSE load_kids(kids, k + 1, load_pages(kids[k], p))
load_pages(node, p) ==
  IF node.kind = "null"
    THEN [p EXCEPT !.ok = FALSE, !.msgs = Append(@, "Unable to find pages object.")]
  ELSE IF node.kind = "nodict"
    THEN [p EXCEPT !.ok = FALSE, !.msgs = Append(@, "No dictionary for pages object.")]
  ELSE IF node.kind = "badtype"
    THEN [p EXCEPT !.ok = FALSE]
  ELSE IF node.kind = "pages"
    THEN load_kids(node.kids, 1, p)
  ELSE AddPage(node.kind, p)

\* The outcomes of load_pages() on the page trees a file can hold.
PageWalks == {load_pages(tree, NoPages) : tree \in PageTrees}

\* What /Root of a trailer can be: absent (NULL), or a reference to
\* object 1.
RootRefs == {NULL, 1}

\* /Root resolving to nothing, whatever the trailer holds.
NoRoot(o, ref) == NULL

\* pdfioDictGetObject(dict, "Root"): the record the reference resolves to,
\* or NULL when the key is absent or the number is not in the index.
RootOf(o, ref) ==
  IF ref # NULL /\ pdfioFileFindObject(o, ref) # NULL
    THEN o[pdfioFileFindObject(o, ref)].id
    ELSE NULL

\* Trailer assembly reading its keys from the section loaded last.
LastLoaded(composite, t) == t.off

\* The dictionary trailer assembly reads its keys from: pdf->trailer, not
\* the dictionary t of the section loaded last.
AssembledFrom(composite, t) == composite

\* The keys a trailer can hold besides /Root and /Prev.
OptKeys == {"Info", "Encrypt", "ID"}

\* The sets of those keys the composite trailer of a file can hold: every
\* set in the runs on trailer contents, none of the keys elsewhere.
KeySets == IF focus = "keys" THEN SUBSET OptKeys ELSE {{}}

\* What trailer assembly read: the /Root reference, whether its number was
\* in the index, the other keys of the trailer and the page walk's outcome.
Assembled(ref, ks, p) ==
  [ref |-> ref, found |-> ref # NULL /\ LinearScan(objs, ref), keys |-> ks,
   pages |-> p.ok]

\* After the while loop: /Root of the composite trailer, /Info, /Encrypt
\* and /ID, then the pages.  from names the dictionary the keys are read
\* from.
Assemble(from) ==
  /\ pc = "finish"
  /\ \E ref \in RootRefs, ks \in KeySets :
       \/ \* pdfioDictGetObject(pdf->trailer, "Root") is NULL
          /\ RootOf(objs, ref) = NULL
          /\ FailAt("Missing Root object.", Assembled(ref, ks, NoPages),
                    Cur, <<"Missing Root object.">>)
       \/ \* the page walk fails
          /\ RootOf(objs, ref) # NULL
          /\ \E p \in PageWalks :
               /\ ~p.ok
               /\ FailAt("load_pages", Assembled(ref, ks, p), Cur, p.msgs)
       \/ \* load_xref returns true and pdfioFileOpen returns pdf
          /\ RootOf(objs, ref) # NULL
          /\ \E p \in PageWalks :
               /\ p.ok
               /\ num_pages' = p.num_pages
          /\ pc' = "opened"
          /\ root' = RootOf(objs, ref)
          /\ keys' = ks
          /\ asked' = from
          /\ LoaderGone
          /\ UNCHANGED <<pdf, mode, fd, opens, closes, objs, alloc_objs, heap,
                         nalloc, pdf_trailer, trailer_sets, errs, cause, focus>>
          /\ UNCHANGED fileVars
  /\ UNCHANGED streams

TrailerAssembly == Assemble(AssembledFrom(pdf_trailer, trailer))

(* ------------------------------------------------------------------ *)
(* The program                                                         *)
(* ------------------------------------------------------------------ *)

Next ==
  \/ pdfioFileCreate
  \/ pdfioFileCreateObject
  \/ pdfioFileOpen
  \/ ReadHeader
  \/ LoadXrefSection
  \/ XrefStreamRecord
  \/ XrefStreamEnd
  \/ DrainSobjs
  \/ ObjStreamOpen
  \/ ObjStreamHeader
  \/ ObjStreamValue
  \/ ClassicSubsection
  \/ ClassicEntry
  \/ ChainStep
  \/ TrailerAssembly
  \/ pdfioFileClose

Spec == Init /\ [][Next]_vars

\* Files whose /Prev can lead back to a section already loaded.  Every step
\* of the program is taken when it can be: pdfioFileOpen runs in one thread
\* and each of its steps ends.
InitCycle == Start("cycle")
SpecCycle == InitCycle /\ [][Next]_vars /\ WF_vars(Next)

\* Files whose trailer holds any of /Info, /Encrypt and /ID.
InitKeys == Start("keys")
SpecKeys == InitKeys /\ [][Next]_vars

\* Files whose classical entries can be wrong in any one field.
InitEntries == Start("entries")
SpecEntries == InitEntries /\ [][Next]_vars

\* Runs about the calls of pdfioFileCreateObject.
InitCreate == Start("create")
SpecCreate == InitCreate /\ [][Next]_vars

\* Runs about the numbers xref entries are taken for.
InitNumbers == Start("numbers")
SpecNumbers == InitNumbers /\ [][Next]_vars

\* The queue of parents in a section of many compressed records.  The xref
\* stream at the startxref offset is object MaxNum + 1, its decode stream
\* is open and its /Index starts at QueueFirst.  Record k of the section is
\* a compressed one whose parent, object QueueParent(k), is not in the
\* index: each record names another parent.  The run starts in the record
\* loop after any number of such records up to the capacity of the queue.
QueueFirst == MaxNum + 2
QueueParent(k) == QueueFirst + SobjsMax + 1 + k

InitQueue ==
  /\ focus = "queue"
  /\ cause = NoCause
  /\ keys = {}
  /\ prevs = [x \in XOffs |-> Unknown]
  /\ pc = "xs_read"
  /\ pdf = "live" /\ mode = "read" /\ fd = "open"
  /\ opens = 1 /\ closes = 0
  /\ objs = <<[NewObj(1, MaxNum + 1, 0, 1) EXCEPT !.value = "dict"]>>
  /\ alloc_objs = AllocStep /\ heap = {1} /\ nalloc = 1
  /\ pdf_trailer = NULL /\ root = NULL /\ asked = NULL /\ num_pages = 0
  /\ trailer_sets = 0
  /\ errs = <<>>
  /\ xref_offset = 1 /\ num_objects = 0
  /\ trailer = [off |-> 1, prev |-> 0] /\ w = <<1, 1, 1>> /\ line = NoLine
  /\ \E k \in 0..SobjsMax :
       /\ number = QueueFirst + k
       /\ sub = [first |-> QueueFirst, k |-> k,
                 last |-> IF k = 0 THEN 0 ELSE QueueFirst + k - 1,
                 idx |-> IF k = 0 THEN {} ELSE Indices(<<1, 1, 1>>, <<2>>)]
       /\ sobjs = [j \in 1..k |-> QueueParent(j - 1)]
       /\ named = {QueueParent(j - 1) : j \in 1..k}
  /\ streams = {"xref"} /\ i = 0 /\ os = NoCall
  /\ chain = <<1>>
  /\ reads = 1
  /\ seen = [n \in AllNums |-> IF n = MaxNum + 1 THEN <<Entry(1, "x", 0, 1)>> ELSE <<>>]
  /\ hdrs = [n \in Nums |-> Unread]

\* One iteration of the record loop on such a record: neither the number
\* nor the parent is in the index, so the parent goes through the dedup
\* scan and the capacity test.
QueueRecord ==
  /\ pc = "xs_read"
  /\ focus = "queue"
  /\ sub.k <= SobjsMax
  /\ ~Present(objs, number)
  /\ ~Present(objs, QueueParent(sub.k))
  /\ sobjs' = Enqueued(sobjs, QueueParent(sub.k))
  /\ named' = named \cup {QueueParent(sub.k)}
  /\ number' = Advance(number)
  /\ sub' = [sub EXCEPT !.k = @ + 1, !.last = number, !.idx = Indices(w, <<2>>)]
  /\ UNCHANGED <<pc, errs, streams, xref_offset, num_objects, trailer, w, line, i, os>>
  /\ UNCHANGED handleVars
  /\ UNCHANGED fileVars

NextQueue == QueueRecord

SpecQueue == InitQueue /\ [][NextQueue]_vars

\* Files whose compressed records name one parent in several sections.
InitExpand == Start("expand")
SpecExpand == InitExpand /\ [][Next]_vars

\* Files whose object streams hold a number as their first value, or a
\* header without its last offset.
InitPayload == Start("payload")
SpecPayload == InitPayload /\ [][Next]_vars

\* Files whose xref streams have widths at the limits of buffer and of
\* size_t.
InitBuffers == Start("buffers")
SpecBuffers == InitBuffers /\ [][Next]_vars

\* Files whose xref streams have a type column of 0, 1 or 2 bytes.
InitWidths == Start("widths")
SpecWidths == InitWidths /\ [][Next]_vars

(* ------------------------------------------------------------------ *)
(* Properties                                                          *)
(* ------------------------------------------------------------------ *)

\* Object numbers a caller can ask pdfioFileFindObject() for.
ProbeNums == {0} \cup AllNums \cup (1..MaxCreate)

\* The largest offset in the non-empty sequence q.
MaxOf(q) == CHOOSE x \in Range(q) : \A y \in Range(q) : y <= x

\* The in-use xref entries read for object n, newest section first.
InUse(n) == SelectSeq(seen[n], LAMBDA e : e.type = "n")

\* The numbers of o are strictly increasing: no number is in two records.
StrictlyIncreasing(o) ==
  \A k \in 1..(Len(o) - 1) : o[k].number < o[k + 1].number

\* C1: after a successful open the object numbers of the index, read by
\* position 0 .. num_objs-1, are strictly increasing: no number is in two
\* records.
C1_StrictlyIncreasing ==
  pc = "opened" => StrictlyIncreasing(objs)

\* C2: in every state of the index, and for every object number n, the
\* binary search of pdfioFileFindObject finds a record exactly when a linear
\* scan finds one numbered n, and the record it returns is numbered n.
C2_FindAgreesWithScan ==
  \A n \in ProbeNums :
    LET k == pdfioFileFindObject(objs, n)
    IN  /\ (k # NULL) <=> LinearScan(objs, n)
        /\ k # NULL => objs[k].number = n

\* C2, its case: the index was re-sorted (two neighbours are not in the
\* order they were allocated in), a number in it is found and another
\* number is not.
C2_Witness ==
  /\ \E k \in 1..(Len(objs) - 1) :
       /\ objs[k].id > objs[k + 1].id
       /\ pdfioFileFindObject(objs, objs[k + 1].number) # NULL
  /\ \E n \in ProbeNums : pdfioFileFindObject(objs, n) = NULL

\* C3: when object n is listed in use by more than one xref section of the
\* chain, the record found for n after open has the offset and generation
\* the most recent of those sections gives.
C3_NewestInUseWins ==
  pc = "opened" =>
    \A n \in AllNums :
      Len(InUse(n)) > 1 =>
        LET k == pdfioFileFindObject(objs, n)
        IN  /\ k # NULL
            /\ objs[k].offset = InUse(n)[1].offset
            /\ objs[k].generation = InUse(n)[1].generation

\* C4: in a file of two revisions, the record found for n after open
\* reflects the newest revision that mentions n: none when its entry for n
\* is free, and the offset and generation it gives when n is in use there
\* (by an xref entry, or as the xref stream object itself).  Stated for the
\* files whose index holds no number twice.
C4_NewestRevisionOnly ==
  pc = "opened" /\ Len(chain) = 2 /\ StrictlyIncreasing(objs) =>
    \A n \in AllNums :
      seen[n] # <<>> =>
        LET e == seen[n][1]
            k == pdfioFileFindObject(objs, n)
        IN  /\ e.type = "f" => k = NULL
            /\ e.type \in {"n", "x"} =>
                 /\ k # NULL
                 /\ objs[k].offset = e.offset
                 /\ objs[k].generation = e.generation

\* C5: pdf->trailer is assigned once per open, to the trailer of the first
\* section loaded; no later section replaces it; and /Root, /Info, /Encrypt
\* and /ID are read from it.
C5_CompositeTrailerOnce ==
  /\ trailer_sets <= 1
  /\ pdf_trailer # NULL => trailer_sets = 1 /\ pdf_trailer = chain[1]
  /\ pc = "opened" => pdf_trailer # NULL /\ asked = pdf_trailer

\* C5, its case: a file of two sections is open, the trailer was assigned
\* once and the keys were read from the first section's trailer.
C5_Witness ==
  /\ pc = "opened"
  /\ Len(chain) = 2
  /\ trailer_sets = 1
  /\ asked = chain[1]

\* C6 as stated: after open the composite trailer is the trailer of the
\* section at the highest byte offset on the chain, whichever way /Prev
\* points.
C6_HighestOffset ==
  pc = "opened" => pdf_trailer = MaxOf(chain)

\* C6 as amended: after open the composite trailer is the trailer of the
\* section at the startxref offset; that is the highest offset on the chain
\* exactly when no /Prev led to a higher one.
C6_StartxrefSection ==
  pc = "opened" =>
    /\ pdf_trailer = chain[1]
    /\ (pdf_trailer = MaxOf(chain)) <=>
         (\A k \in 2..Len(chain) : chain[k] < chain[1])

\* C6 amended, its case: a file is open whose /Prev pointed to a higher
\* offset, and the composite trailer is the one of the lower section.
C6_Witness ==
  /\ pc = "opened"
  /\ Len(chain) = 2
  /\ chain[2] > chain[1]
  /\ pdf_trailer = chain[1]

\* C7: an open that fails after the pdfio_file_t was set up has reported
\* exactly one message through the error callback.
C7_ReportedOnce ==
  pc = "failed" /\ mode = "read" => Len(errs) = 1

\* C8: when open returns, with a handle or without, no decode stream the
\* loader opened is still open.
C8_StreamsClosed ==
  pc \in {"opened", "failed"} => streams = {}

\* C9: open ends with a handle whose chain, composite trailer and /Root are
\* all set, or, after a failure past the open() call, with the handle
\* closed and freed; it ends in no other way.
C9_NoPartialSuccess ==
  /\ pc = "opened" =>
       /\ pdf = "live" /\ fd = "open"
       /\ chain # <<>> /\ pdf_trailer # NULL
       /\ root \in Ids(objs)
  /\ pc = "failed" /\ opens = 1 =>
       /\ pdf = "freed" /\ fd = "closed"
       /\ objs = <<>> /\ pdf_trailer = NULL /\ root = NULL
  /\ pc # "crashed"

\* C10: once open or create has failed, or close has returned, every
\* successful open() was followed by exactly one close() and no record is
\* left allocated; before that nothing was closed and every record
\* allocated and not freed is in the index.
C10_ClosedOnce ==
  /\ closes <= opens
  /\ pc \in {"failed", "closed"} => closes = opens /\ heap = {}
  /\ pc \notin {"failed", "closed"} => closes = 0 /\ heap = Ids(objs)

\* C10, its case: a file that was read with at least two records in its
\* index has been closed.
C10_Witness ==
  /\ pc = "closed"
  /\ mode = "read"
  /\ opens = 1 /\ closes = 1
  /\ nalloc >= 2
  /\ heap = {}

\* C11: every open ends: from the moment the file is open for reading,
\* pdfioFileOpen eventually returns a handle or NULL (or has stopped in the
\* null-pointer store of load_obj_stream), for every file, one whose /Prev
\* leads back to a section already loaded included.
C11_OpenReturns ==
  (pc = "header") ~> (pc \in {"opened", "failed", "crashed"})

\* C12: trailer assembly runs only once the loop has ended (the /Prev read
\* last is absent or <= 0 and the composite trailer is set); open fails
\* with "Missing Root object." only when /Root of the composite trailer is
\* absent or names no object of the index; every failure of the assembly is
\* that one or a failure of the page walk, whichever of /Info, /Encrypt and
\* /ID the trailer holds; and a handle is returned only with /Root resolved.
C12_Assembly ==
  /\ pc = "finish" =>
       /\ trailer.prev <= 0
       /\ chain # <<>> /\ pdf_trailer = chain[1]
  /\ pc # "opened" => root = NULL /\ keys = {}
  /\ pc = "opened" => root \in Ids(objs)
  /\ cause.site = "Missing Root object." => ~cause.input.found
  /\ (pc = "failed" /\ "found" \in DOMAIN cause.input) =>
       \/ ~cause.input.found /\ cause.site = "Missing Root object."
       \/ cause.input.found /\ ~cause.input.pages /\ cause.site = "load_pages"

\* C12, its case: a file of two sections is open whose trailer holds
\* /Encrypt and neither /Info nor /ID.
C12_Witness ==
  /\ pc = "opened"
  /\ Len(chain) = 2
  /\ keys = {"Encrypt"}
  /\ root # NULL

\* The defects of a classical entry: not 20 bytes, a line end that is none
\* of CR LF, space LF, space CR, a negative offset, a generation outside
\* 0..65535, a type that is neither 'f' nor 'n'.
Defective(e) ==
  \/ e.read # 20
  \/ e.eol \notin GoodEols
  \/ e.offset < 0
  \/ e.generation \notin 0..GenMax
  \/ e.type \notin {"f", "n"}

\* C13: an open that fails on a classical xref entry has reported exactly
\* one message, "Malformed xref table entry"; an entry with one of the
\* defects is never taken as an entry, so no record is inserted for it.
C13_MalformedEntry ==
  /\ (pc = "failed" /\ cause.site = "xref entry") =>
       errs = <<"Malformed xref table entry">>
  /\ line # NoLine => ~Defective(line)

\* Every record of the index o is in the index t, with the number it had.
Kept(o, t) ==
  \A k \in 1..Len(o) :
    \E j \in 1..Len(t) : t[j].id = o[k].id /\ t[j].number = o[k].number

\* C14: on a handle opened for writing the records are numbered 1..k in
\* index order, and a call of pdfioFileCreateObject either leaves the index
\* as it is or appends one record numbered by the count before the call
\* plus one; on a handle opened for reading it leaves the index as it is;
\* and no step but a close (by the application, or by a failed open or
\* create) makes the index shorter, or removes or renumbers a record.
C14_CreateObject ==
  [][/\ mode' = "write" =>
          \A k \in 1..Len(objs') : objs'[k].number = k
     /\ (pc \in {"created", "opened"} /\ pc' = pc) =>
          \/ objs' = objs
          \/ /\ mode = "write"
             /\ Len(objs') = Len(objs) + 1
             /\ objs'[Len(objs')].number = Len(objs) + 1
             /\ \A k \in 1..Len(objs) : objs'[k] = objs[k]
     /\ (pc = "opened" /\ pc' = pc) => objs' = objs
     /\ pc' \notin {"failed", "closed"} =>
          Len(objs') >= Len(objs) /\ Kept(objs, objs')]_vars

\* C14, its case: on a file being written a call has failed and the calls
\* that succeeded left the records 1 and 2, in that order.
C14_Witness ==
  /\ pc = "created"
  /\ errs # <<>>
  /\ Len(objs) = 2
  /\ objs[1].number = 1 /\ objs[2].number = 2

\* C15: in both xref forms the k-th entry (from 0) of a subsection whose
\* first number is f is taken for object f+k, whatever the entries before
\* it were: the entry read last was taken for f+k-1 where k entries are
\* read, and the next one will be taken for f+k.
C15_EntryNumber ==
  /\ sub.k > 0 => sub.last = sub.first + sub.k - 1
  /\ pc \in {"xs_read", "cl_entry"} => number = sub.first + sub.k
  /\ (pc \in {"os_open", "os_hdr", "os_val"} /\ os.ret = "xs_read") =>
       number = sub.last

\* C15, its case: the first entry of an xref-stream subsection was free or
\* compressed, and the second one was inserted under the first number
\* plus one.
C15_Witness ==
  /\ pc = "xs_read"
  /\ sub.k = 2
  /\ seen[sub.first] # <<>>
  /\ seen[sub.first][1].type \in {"f", "c"}
  /\ ~Present(objs, sub.first)
  /\ Present(objs, sub.first + 1)
  /\ objs[pdfioFileFindObject(objs, sub.first + 1)].offset =
       EntryOffset(xref_offset, sub.first + 1)

\* Is n listed at the head of an object stream that was read?
InHeader(n) ==
  \E m \in Nums : hdrs[m] # Unread /\ n \in Range(ScanHeader(hdrs[m]).nums)

\* C16: the type of an xref-stream record is the value of column 0 over its
\* full width (1 without the column).  When the only thing read about
\* object n is one record, and no object stream read lists n, then a record
\* of type 1 has put n in the index at the offset and generation it gives,
\* a record of type 2 has had its parent expanded or queued, and n is in
\* the index only for a record whose type is not 0.
C16_TypeFullWidth ==
  pc \in {"xs_read", "xs_drain", "os_open", "os_hdr", "os_val"} =>
    \A n \in Nums :
      (Len(seen[n]) = 1 /\ seen[n][1].sec = xref_offset /\ ~InHeader(n)) =>
        LET e == seen[n][1]
        IN  /\ e.type = "n" =>
                 \E k \in 1..Len(objs) :
                   /\ objs[k].number = n
                   /\ objs[k].offset = e.offset
                   /\ objs[k].generation = e.generation
            /\ e.type = "c" =>
                 \/ e.offset \in Range(sobjs)
                 \/ e.offset \in Nums /\ hdrs[e.offset] # Unread
                 \/ os.obj = e.offset
            /\ e.type = "f" => ~LinearScan(objs, n)

\* The failures of the tests of /Index and /W.
DictMessages ==
  {"Multiple indices not supported in cross-reference stream.",
   "Cross-reference stream does not have required W key.",
   "Cross-reference stream has invalid W key."}

\* Do the three widths ww, as numbers, add up to 32 at most?  A width kept
\* below 0 is a number near 2^64.
WidthsFit(ww) ==
  /\ \A j \in 1..3 : ww[j] >= 0
  /\ ww[1] + ww[2] + ww[3] <= 32

\* C17: an xref stream whose /W is missing or does not satisfy w1 > 0,
\* w2 <= 2 and w0 + w1 + w2 <= 32, or whose /Index holds more than one
\* pair, never has its decode stream opened or a record read: the open has
\* failed with the message of the test, no decode stream is open, and the
\* only allocation of the pass was the one for the stream object itself.
C17_RejectedBeforeRead ==
  /\ pc \in {"xs_read", "xs_drain", "os_open", "os_hdr", "os_val"} =>
       /\ Len(w) = 3
       /\ w[2] > 0 /\ w[3] <= 2 /\ WidthsFit(w)
  /\ (pc = "failed" /\ cause.site \in DictMessages) =>
       /\ \/ cause.input.index > 2
          \/ cause.input.w = NoWKey
          \/ ~(cause.input.w[2] > 0 /\ cause.input.w[3] <= 2
                /\ WidthsFit(cause.input.w))
       /\ errs = <<cause.site>>
       /\ streams = {}
       /\ nalloc = cause.input.before + 1

\* C17, its case: the second section of a chain is an xref stream whose
\* three widths add up to more than 32, and the open has failed on it.
C17_Witness ==
  /\ pc = "failed"
  /\ cause.site = "Cross-reference stream has invalid W key."
  /\ cause.input.w[1] + cause.input.w[2] + cause.input.w[3] > 32
  /\ cause.input.before > 0

\* The object streams that were read.
ExpandedSet == {p \in Nums : hdrs[p] # Unread}

\* C18: no parent named by a compressed record that was not skipped is
\* dropped: while the records of the section are read it is in the queue,
\* or is being or was expanded; once the section is consumed it was
\* expanded (the open has failed otherwise).
C18_NoParentDropped ==
  /\ pc = "xs_read" =>
       named \subseteq (Range(sobjs) \cup ExpandedSet)
  /\ pc \in {"os_open", "os_hdr", "os_val", "xs_drain"} =>
       named \subseteq (Range(sobjs) \cup ExpandedSet \cup {os.obj})
  /\ (pc = "xs_drain" /\ i >= Len(sobjs)) =>
       named \subseteq ExpandedSet

\* The object numbers the header of the payload T lists.
PairNums(T) ==
  LET h == SelectSeq(T, LAMBDA t : t.kind = "num")
  IN  [j \in 1..Len(h) |-> h[j].n]

\* C19: while an object stream is expanded, the object numbers the header
\* loop takes are the numbers of the (number, offset) pairs of its header,
\* one record each, and the i-th value read is the value of the object the
\* i-th of them names; when the value loop is over, as many values were
\* read as the header has pairs.
C19_HeaderPairsValues ==
  pc \in {"os_hdr", "os_val"} =>
    /\ os.hdr = PairNums(os.toks)
    /\ \A j \in 1..Len(os.got) : os.got[j] = os.hdr[j]
    /\ (pc = "os_val" /\ os.cur_obj >= Len(os.objs)) =>
         Len(os.got) = Len(PairNums(os.toks))

\* The index holds one record of number n, and it is not the record of the
\* xref stream of a section.
OneStream(n) ==
  /\ Cardinality({k \in 1..Len(objs) : objs[k].number = n}) = 1
  /\ \A x \in XOffs : ~IsSelf(objs, x, n)

\* C20: during one open no object stream is expanded twice: a stream whose
\* payload load_obj_stream reads was not read before since the file was
\* opened, whether a compressed record or the queue names it.
C20_ExpandedOnce ==
  (pc \in {"os_hdr", "os_val"} /\ OneStream(os.obj)) => ~os.again

\* C21: no buffer of fixed capacity of the loader is read or written
\* outside its bounds: the queue of parents holds at most 1000 numbers, an
\* object stream has at most 1000 slots of objs[] written, and every place
\* of buffer a record of an xref stream is decoded from is below
\* w0 + w1 + w2, which is at most 32.
C21_BuffersInBounds ==
  /\ Len(sobjs) <= SobjsMax
  /\ Len(os.objs) <= ObjStmMax
  /\ \A j \in sub.idx :
       /\ j >= 0 /\ j < w[1] + w[2] + w[3]
       /\ w[1] + w[2] + w[3] <= BufferSize

====
